---- MODULE Spec2Model ----
(***************************************************************************)
(* Model of adsb_server.py: an asyncio relay that keeps one upstream       *)
(* websocket connection and fans every upstream message out to the local   *)
(* subscribers in CONNECTED_CLIENTS, with a shutdown protocol around the   *)
(* asyncio.Event shutdown_event.                                           *)
(*                                                                         *)
(* Granularity: asyncio tasks are cooperative, so one action is the code a *)
(* task runs between two awaits.  os_signal_handler is delivered between   *)
(* such steps.  Timeouts (1 s, 5 s, 10 s) are untimed nondeterministic     *)
(* choices.  The websockets library is modelled by the part of its         *)
(* contract the program relies on: open/closed connections, close(code),   *)
(* send raising on a closed connection, serve/close of the listener.       *)
(*                                                                         *)
(* Where a line of the code decides a property, it is a small operator of  *)
(* its own; the operator defined just above it is a faulty variant of that *)
(* line, which the properties at the end must be able to tell apart.       *)
(***************************************************************************)
EXTENDS Integers, Sequences, FiniteSets, TLC

\* ---- bounds of the model ----
NumClients == 2
MaxMsgs == 2
MaxFails == 2

\* ---- program constants ----
ShutdownCode == 1012

Clients == 1..NumClients
MsgIds == 1..MaxMsgs
\* upstream frames: the empty text frame and a non-empty one
Payloads == {"", "A1:LAT=1,LON=2"}

VARIABLES
    shutdown_event,     \* asyncio.Event shutdown_event (line 24)
    CONNECTED_CLIENTS,  \* the registry (line 22)
    conn,               \* per client websocket: "none" | "open" | "closed"
    closeCode,          \* per client: code of the close frame the server sent, 0 if none
    spc,                \* per client: position of its register_client task
    listening,          \* the local server accepts connections
    cpc,                \* position of main_server_logic
    wpc,                \* ShutdownEventWatcher task: "none" | "pending" | "cancelreq" | "done" | "cancelled"
    ucancel,            \* task.cancel() was called on ExternalDataReceiver
    upc,                \* position of receive_from_external_adsb
    upstream,           \* UpstreamSession: "Disconnected" | "Connecting" | "Connected"
    ufails,             \* consecutive failed connect attempts since the last success (saturating)
    bstatus,            \* per message id: state of its broadcast_message call
    sendTask,           \* per message id and client: state of the SendTo_ task
    received,           \* per client: message ids delivered by client.send, in order
    activeAtStart,      \* per message id: clients registered and open when its broadcast started
    lateStart,          \* clients whose session started with shutdown_event set
    openAtSet,          \* clients registered and open when shutdown_event was set
    lateAttempt         \* a connect attempt began with shutdown_event set

vars == <<shutdown_event, CONNECTED_CLIENTS, conn, closeCode, spc,
          listening, cpc, wpc, ucancel, upc, upstream, ufails,
          bstatus, sendTask, received, activeAtStart,
          lateStart, openAtSet, lateAttempt>>

sigVars == <<shutdown_event, openAtSet>>
clientVars == <<CONNECTED_CLIENTS, conn, closeCode, spc, lateStart>>
coordVars == <<listening, cpc, wpc, ucancel>>
connVars == <<upc, upstream, ufails, lateAttempt>>
bcastVars == <<bstatus, sendTask, received, activeAtStart>>

Init ==
    /\ shutdown_event = FALSE
    /\ CONNECTED_CLIENTS = {}
    /\ conn = [c \in Clients |-> "none"]
    /\ closeCode = [c \in Clients |-> 0]
    /\ spc = [c \in Clients |-> "idle"]
    /\ listening = FALSE
    /\ cpc = "start"
    /\ wpc = "none"
    /\ ucancel = FALSE
    /\ upc = "none"
    /\ upstream = "Disconnected"
    /\ ufails = 0
    /\ bstatus = [m \in MsgIds |-> "none"]
    /\ sendTask = [m \in MsgIds |-> [c \in Clients |-> "none"]]
    /\ received = [c \in Clients |-> <<>>]
    /\ activeAtStart = [m \in MsgIds |-> {}]
    /\ lateStart = {}
    /\ openAtSet = {}
    /\ lateAttempt = FALSE

\* ---------------------------------------------------------------------
\* shutdown_event and os_signal_handler
\* ---------------------------------------------------------------------

\* asyncio.Event.set(): the value of the flag after set() on a flag of value v
EventSet(v) == TRUE

\* lines 226-229 and 176-177: set() is called only when the event is not set
SetOrClear(v) == ~v
SetIfUnset(v) == IF ~v THEN EventSet(v) ELSE v

\* asyncio.run (line 237) is past main_server_logic and cancels the tasks left
Teardown == cpc = "exited"

\* clients that are registered and whose connection is open
Active == {c \in CONNECTED_CLIENTS : conn[c] = "open"}

\* os_signal_handler (lines 221-229): sets the event, or only logs a warning when
\* it is set already
os_signal_handler ==
    /\ cpc \notin {"failed", "exited"}
    /\ shutdown_event' = SetIfUnset(shutdown_event)
    /\ openAtSet' = IF shutdown_event THEN openAtSet ELSE Active
    /\ UNCHANGED <<clientVars, coordVars, connVars, bcastVars>>

\* ---------------------------------------------------------------------
\* register_client: one session task per accepted subscriber connection
\* ---------------------------------------------------------------------

\* number of frames received from upstream so far; frame m is the m-th received
NumReceived == Cardinality({m \in MsgIds : bstatus[m] # "none"})

\* upstream frames whose handling (drop or broadcast_message call) is over
Handled == {m \in MsgIds : bstatus[m] \in {"dropped", "returned", "cancelled"}}

\* line 29: a new connection is rejected when shutdown_event is set
RejectNewNever(ev) == FALSE
RejectNew(ev) == ev

\* line 37: the session adds its client to the registry
RegisterNever(S, c) == S
Register(S, c) == S \cup {c}

\* lines 69-70: the finally block removes the client from the registry
UnregisterNever(S, c) == S
Unregister(S, c) == S \ {c}

\* line 50: the session closes the connection only if it is not closed yet
NeedsCloseNever(state) == FALSE
NeedsClose(state) == state # "closed"

\* lines 27-43: the handler runs from the accepted connection to its first await
Accept(c) ==
    /\ listening
    /\ spc[c] = "idle"
    /\ lateStart' = IF shutdown_event THEN lateStart \cup {c} ELSE lateStart
    /\ IF RejectNew(shutdown_event)
          THEN \* lines 30-32: close(code=1012, reason="Server shutting down")
               /\ conn' = [conn EXCEPT ![c] = "closed"]
               /\ closeCode' = [closeCode EXCEPT ![c] = ShutdownCode]
               /\ spc' = [spc EXCEPT ![c] = "rejecting"]
               /\ UNCHANGED CONNECTED_CLIENTS
          ELSE \* lines 37-43: register, then wait for close or shutdown
               /\ CONNECTED_CLIENTS' = Register(CONNECTED_CLIENTS, c)
               /\ conn' = [conn EXCEPT ![c] = "open"]
               /\ spc' = [spc EXCEPT ![c] = "waiting"]
               /\ UNCHANGED closeCode
    /\ UNCHANGED <<sigVars, coordVars, connVars, bcastVars>>

\* lines 32-35: the rejecting close returns (or raises ConnectionClosed); return
RejectDone(c) ==
    /\ spc[c] = "rejecting"
    /\ spc' = [spc EXCEPT ![c] = "done"]
    /\ UNCHANGED <<sigVars, CONNECTED_CLIENTS, conn, closeCode, lateStart,
                   coordVars, connVars, bcastVars>>

\* the subscriber closes its connection, or the transport fails
ClientClose(c) ==
    /\ conn[c] = "open"
    /\ conn' = [conn EXCEPT ![c] = "closed"]
    /\ UNCHANGED <<sigVars, CONNECTED_CLIENTS, closeCode, spc, lateStart,
                   coordVars, connVars, bcastVars>>

\* lines 43-60 and 68-71: asyncio.wait returned with the finished task(s)
SessionWake(c) ==
    /\ spc[c] = "waiting"
    /\ ~Teardown
    /\ conn[c] = "closed" \/ shutdown_event
    /\ IF shutdown_event /\ NeedsClose(conn[c])
          THEN \* lines 48-51: close(code=1012, ...) and await it
               /\ conn' = [conn EXCEPT ![c] = "closed"]
               /\ closeCode' = [closeCode EXCEPT ![c] =
                                    IF conn[c] = "open" THEN ShutdownCode ELSE @]
               /\ spc' = [spc EXCEPT ![c] = "closing"]
               /\ UNCHANGED CONNECTED_CLIENTS
          ELSE IF shutdown_event
          THEN \* both tasks done, nothing pending: straight to finally
               /\ CONNECTED_CLIENTS' = Unregister(CONNECTED_CLIENTS, c)
               /\ spc' = [spc EXCEPT ![c] = "done"]
               /\ UNCHANGED <<conn, closeCode>>
          ELSE \* lines 55-60: cancel the pending shutdown listener and await it
               /\ spc' = [spc EXCEPT ![c] = "cleanup"]
               /\ UNCHANGED <<CONNECTED_CLIENTS, conn, closeCode>>
    /\ UNCHANGED <<sigVars, lateStart, coordVars, connVars, bcastVars>>

\* line 51 returns or raises (lines 62-67 catch it); lines 55-60 do not block; finally
CloseDone(c) ==
    /\ spc[c] = "closing"
    /\ CONNECTED_CLIENTS' = Unregister(CONNECTED_CLIENTS, c)
    /\ spc' = [spc EXCEPT ![c] = "done"]
    /\ UNCHANGED <<sigVars, conn, closeCode, lateStart,
                   coordVars, connVars, bcastVars>>

\* lines 57-60 and 68-71: the cancelled listener finished; finally
SessionFinish(c) ==
    /\ spc[c] = "cleanup"
    /\ CONNECTED_CLIENTS' = Unregister(CONNECTED_CLIENTS, c)
    /\ spc' = [spc EXCEPT ![c] = "done"]
    /\ UNCHANGED <<sigVars, conn, closeCode, lateStart,
                   coordVars, connVars, bcastVars>>

\* CancelledError at the session's await (asyncio.run, line 237): only finally runs
SessionCancelled(c) ==
    /\ Teardown
    /\ spc[c] \in {"waiting", "rejecting", "closing", "cleanup"}
    /\ CONNECTED_CLIENTS' = Unregister(CONNECTED_CLIENTS, c)
    /\ spc' = [spc EXCEPT ![c] = "done"]
    /\ UNCHANGED <<sigVars, conn, closeCode, lateStart,
                   coordVars, connVars, bcastVars>>

\* ---------------------------------------------------------------------
\* broadcast_message and the SendTo_ tasks
\* ---------------------------------------------------------------------

\* lines 82-86: a send task is created for each registered client that is open
SendTargetsAll(reg, cn) == reg
SendTargets(reg, cn) == {c \in reg : cn[c] = "open"}

\* line 91: asyncio.gather returns once every send task has finished
GatherDoneAtOnce(tasks) == TRUE
GatherDone(tasks) == \A c \in Clients : tasks[c] # "pending"

\* line 91: with return_exceptions=True gather never raises a send's exception
GatherRaisesFirst(tasks) == \E c \in Clients : tasks[c] = "failed"
GatherRaises(tasks) == FALSE

\* line 109: the receive loop goes on while shutdown_event is not set
InnerContinues(ev) == ~ev

\* position of the connector after a frame was handled (line 109, then 111)
AfterFrame(ev) == IF InnerContinues(ev) THEN "recv" ELSE "aexit"

\* client.send of one SendTo_ task runs (line 86)
SendExec(m, c) ==
    /\ sendTask[m][c] = "pending"
    /\ IF conn[c] = "open"
          THEN /\ sendTask' = [sendTask EXCEPT ![m][c] = "ok"]
               /\ received' = [received EXCEPT ![c] = Append(@, m)]
          ELSE \* send raises ConnectionClosed
               /\ sendTask' = [sendTask EXCEPT ![m][c] = "failed"]
               /\ UNCHANGED received
    /\ UNCHANGED <<sigVars, clientVars, coordVars, connVars,
                   bstatus, activeAtStart>>

\* lines 92-96: the clients whose send failed are logged; the registry is left as
\* it is
AfterErrorsPruned(reg, failed) == reg \ failed
AfterErrors(reg, failed) == reg

\* lines 91-96 and 109: gather returned, failures are logged, the call returns
BroadcastReturn(m) ==
    /\ upc = "gather"
    /\ ~ucancel
    /\ bstatus[m] = "started"
    /\ GatherDone(sendTask[m])
    /\ IF GatherRaises(sendTask[m])
          THEN \* lines 119-121: the exception reaches the receive loop
               /\ bstatus' = [bstatus EXCEPT ![m] = "raised"]
               /\ upc' = "aexit"
          ELSE /\ bstatus' = [bstatus EXCEPT ![m] = "returned"]
               /\ upc' = AfterFrame(shutdown_event)
    /\ CONNECTED_CLIENTS' =
           AfterErrors(CONNECTED_CLIENTS, {c \in Clients : sendTask[m][c] = "failed"})
    /\ UNCHANGED <<sigVars, conn, closeCode, spc, lateStart, coordVars,
                   upstream, ufails, lateAttempt, sendTask, received, activeAtStart>>

\* ---------------------------------------------------------------------
\* receive_from_external_adsb
\* ---------------------------------------------------------------------

\* line 104: the connect loop goes on while shutdown_event is not set
LoopContinuesAlways(ev) == TRUE
LoopContinues(ev) == ~ev

\* lines 104-107: the loop test, then either a connect attempt or the end
NextPc(ev) == IF LoopContinues(ev) THEN "connecting" ELSE "done"

\* lines 122-131 and 104: after a failed attempt or an ended connection the task
\* waits for the retry interval unless shutdown_event is set
AfterSessionCrash(ev) == "done"
AfterSessionNoWait(ev) == NextPc(ev)
AfterSession(ev) == IF ~ev THEN "retrywait" ELSE NextPc(ev)

\* line 129: the retry wait ends on its 5 s timeout or when shutdown_event is set
RetryWaitOverOnEventOnly(ev) == ev
RetryWaitOver(ev) == TRUE

UpstreamOf(pc) == IF pc = "connecting" THEN "Connecting" ELSE "Disconnected"

Min(a, b) == IF a < b THEN a ELSE b

\* the task starts: lines 103-107
ConnStart ==
    /\ upc = "created"
    /\ ~ucancel
    /\ upc' = NextPc(shutdown_event)
    /\ upstream' = UpstreamOf(upc')
    /\ lateAttempt' = (lateAttempt \/ (upc' = "connecting" /\ shutdown_event))
    /\ UNCHANGED <<sigVars, clientVars, coordVars, ufails, bcastVars>>

\* websockets.connect succeeded: lines 108-111
ConnectOK ==
    /\ upc = "connecting"
    /\ ~ucancel
    /\ upstream' = "Connected"
    /\ ufails' = 0
    /\ upc' = AfterFrame(shutdown_event)
    /\ UNCHANGED <<sigVars, clientVars, coordVars, lateAttempt, bcastVars>>

\* websockets.connect raised: lines 122-131
ConnectFail ==
    /\ upc = "connecting"
    /\ ~ucancel
    /\ ufails' = Min(ufails + 1, MaxFails)
    /\ upc' = AfterSession(shutdown_event)
    /\ upstream' = UpstreamOf(upc')
    /\ lateAttempt' = (lateAttempt \/ (upc' = "connecting" /\ shutdown_event))
    /\ UNCHANGED <<sigVars, clientVars, coordVars, bcastVars>>

\* recv timed out after 1 s: lines 114-115, then 109
RecvTimeout ==
    /\ upc = "recv"
    /\ ~ucancel
    /\ upc' = AfterFrame(shutdown_event)
    /\ UNCHANGED <<sigVars, clientVars, coordVars, upstream, ufails, lateAttempt, bcastVars>>

\* recv raised ConnectionClosed or another exception: lines 116-121
RecvClosed ==
    /\ upc = "recv"
    /\ ~ucancel
    /\ upc' = "aexit"
    /\ UNCHANGED <<sigVars, clientVars, coordVars, upstream, ufails, lateAttempt, bcastVars>>

\* recv returned a frame: lines 111-113 and broadcast_message lines 76-91
RecvMessage(p) ==
    /\ upc = "recv"
    /\ ~ucancel
    /\ NumReceived < MaxMsgs
    /\ LET m == NumReceived + 1
           targets == SendTargets(CONNECTED_CLIENTS, conn)
       IN  /\ IF p = ""
                 THEN \* line 112 (and 76-78): an empty frame is dropped
                      /\ bstatus' = [bstatus EXCEPT ![m] = "dropped"]
                      /\ upc' = AfterFrame(shutdown_event)
                      /\ UNCHANGED <<sendTask, activeAtStart>>
                 ELSE /\ activeAtStart' = [activeAtStart EXCEPT ![m] = Active]
                      /\ sendTask' = [sendTask EXCEPT ![m] =
                             [c \in Clients |-> IF c \in targets THEN "pending" ELSE "none"]]
                      /\ IF targets = {}
                            THEN /\ bstatus' = [bstatus EXCEPT ![m] = "returned"]
                                 /\ upc' = AfterFrame(shutdown_event)
                            ELSE /\ bstatus' = [bstatus EXCEPT ![m] = "started"]
                                 /\ upc' = "gather"
    /\ UNCHANGED <<sigVars, clientVars, coordVars, upstream, ufails, lateAttempt, received>>

\* the async with block is left: the upstream connection is closed, lines 107, 127-131
UpstreamClosed ==
    /\ upc = "aexit"
    /\ ~ucancel
    /\ upc' = AfterSession(shutdown_event)
    /\ upstream' = UpstreamOf(upc')
    /\ lateAttempt' = (lateAttempt \/ (upc' = "connecting" /\ shutdown_event))
    /\ UNCHANGED <<sigVars, clientVars, coordVars, ufails, bcastVars>>

\* line 129 timed out after 5 s or shutdown_event was set; back to line 104
RetryElapsed ==
    /\ upc = "retrywait"
    /\ ~ucancel
    /\ RetryWaitOver(shutdown_event)
    /\ upc' = NextPc(shutdown_event)
    /\ upstream' = UpstreamOf(upc')
    /\ lateAttempt' = (lateAttempt \/ (upc' = "connecting" /\ shutdown_event))
    /\ UNCHANGED <<sigVars, clientVars, coordVars, ufails, bcastVars>>

\* CancelledError at the connector's await (task.cancel(), line 182, or asyncio.run):
\* no except clause catches it, gather cancels its pending send tasks
ConnCancelled ==
    /\ ucancel
    /\ upc \in {"created", "connecting", "recv", "gather", "aexit", "retrywait"}
    /\ upc' = "cancelled"
    /\ upstream' = "Disconnected"
    /\ sendTask' = [m \in MsgIds |-> [c \in Clients |->
                       IF sendTask[m][c] = "pending" THEN "cancelled" ELSE sendTask[m][c]]]
    /\ bstatus' = [m \in MsgIds |-> IF bstatus[m] = "started" THEN "cancelled" ELSE bstatus[m]]
    /\ UNCHANGED <<sigVars, clientVars, coordVars, ufails, lateAttempt,
                   received, activeAtStart>>

ConnectorEnded == upc \in {"done", "cancelled"}

\* ---------------------------------------------------------------------
\* main_server_logic and asyncio.run
\* ---------------------------------------------------------------------

\* lines 137-160: the listener is up, both tasks are created, main waits
StartOK ==
    /\ cpc = "start"
    /\ listening' = TRUE
    /\ upc' = "created"
    /\ wpc' = "pending"
    /\ cpc' = "running"
    /\ UNCHANGED <<sigVars, clientVars, ucancel, upstream, ufails, lateAttempt,
                   bcastVars>>

\* lines 143-152: websockets.serve raised; main returns without starting anything
StartFail ==
    /\ cpc = "start"
    /\ cpc' = "failed"
    /\ UNCHANGED <<sigVars, clientVars, listening, wpc, ucancel, connVars, bcastVars>>

\* the ShutdownEventWatcher task (line 157) resumes: event set, or cancelled
WatcherDone ==
    /\ \/ wpc = "pending" /\ shutdown_event /\ wpc' = "done"
       \/ wpc = "cancelreq" /\ wpc' = "cancelled"
    /\ UNCHANGED <<sigVars, clientVars, listening, cpc, ucancel, connVars, bcastVars>>

WatcherEnded == wpc \in {"done", "cancelled"}

\* lines 180-182: cancel() is called on each task of the first wait that has not
\* finished (ended tells whether the task has)
CancelPendingNever(ended) == FALSE
CancelPending(ended) == ~ended

\* lines 160-187: asyncio.wait returned; set the event, cancel what is pending,
\* close the listener and wait for it
CoordWake ==
    /\ cpc = "running"
    /\ wpc = "done" \/ ConnectorEnded
    /\ shutdown_event' = SetIfUnset(shutdown_event)
    /\ openAtSet' = IF shutdown_event THEN openAtSet ELSE Active
    /\ ucancel' = CancelPending(ConnectorEnded)
    /\ wpc' = IF CancelPending(WatcherEnded) THEN "cancelreq" ELSE wpc
    /\ listening' = FALSE
    /\ cpc' = "closing_server"
    /\ UNCHANGED <<clientVars, connVars, bcastVars>>

\* lines 186-204: wait_closed returned or timed out after 5 s; collect unfinished tasks
CoordServerClosed ==
    /\ cpc = "closing_server"
    /\ cpc' = IF ConnectorEnded /\ WatcherEnded THEN "stopped" ELSE "joining"
    /\ UNCHANGED <<sigVars, clientVars, listening, wpc, ucancel, connVars, bcastVars>>

\* line 204: asyncio.wait(tasks_to_await, timeout=10.0) returns when the tasks have
\* ended or when the 10 s are over
JoinWaitOverOnlyWhenEnded(allEnded) == allEnded
JoinWaitOver(allEnded) == TRUE

\* lines 204 and 218: asyncio.wait(timeout=10.0) returned, with the tasks done or
\* on the timeout; it never raises TimeoutError, so lines 205-216 do not run
CoordJoined ==
    /\ cpc = "joining"
    /\ JoinWaitOver(ConnectorEnded /\ WatcherEnded)
    /\ cpc' = "stopped"
    /\ UNCHANGED <<sigVars, clientVars, listening, wpc, ucancel, connVars, bcastVars>>

\* line 237: main returned, asyncio.run cancels every task that is left.  The
\* sessions woken by shutdown_event.set() run before main gets this far (the
\* loop runs ready callbacks in FIFO order).
RunTeardown ==
    /\ cpc = "stopped"
    /\ \A c \in Clients : spc[c] # "waiting"
    /\ cpc' = "exited"
    /\ ucancel' = (ucancel \/ ~ConnectorEnded)
    /\ wpc' = IF WatcherEnded THEN wpc ELSE "cancelreq"
    /\ UNCHANGED <<sigVars, clientVars, listening, connVars, bcastVars>>

\* ---------------------------------------------------------------------
\* specifications
\* ---------------------------------------------------------------------

Next ==
    \/ os_signal_handler
    \/ StartOK
    \/ StartFail
    \/ WatcherDone
    \/ CoordWake
    \/ CoordServerClosed
    \/ CoordJoined
    \/ RunTeardown
    \/ ConnStart
    \/ ConnectOK
    \/ ConnectFail
    \/ RecvTimeout
    \/ RecvClosed
    \/ \E p \in Payloads : RecvMessage(p)
    \/ UpstreamClosed
    \/ RetryElapsed
    \/ ConnCancelled
    \/ \E m \in MsgIds, c \in Clients : SendExec(m, c)
    \/ \E m \in MsgIds : BroadcastReturn(m)
    \/ \E c \in Clients : Accept(c)
    \/ \E c \in Clients : RejectDone(c)
    \/ \E c \in Clients : ClientClose(c)
    \/ \E c \in Clients : SessionWake(c)
    \/ \E c \in Clients : CloseDone(c)
    \/ \E c \in Clients : SessionFinish(c)
    \/ \E c \in Clients : SessionCancelled(c)

Spec == Init /\ [][Next]_vars

\* Scheduling of the session tasks: the event loop runs every ready task, and
\* close() ends within the library's close timeout.  Nothing is assumed about
\* the subscribers, the upstream, the operator or the other tasks.
SessionStep(c) ==
    RejectDone(c) \/ SessionWake(c) \/ CloseDone(c) \/ SessionFinish(c) \/ SessionCancelled(c)

SessionFairness == \A c \in Clients : WF_vars(SessionStep(c))

SessionFairSpec == Spec /\ SessionFairness

\* Scheduling of the connector task: it runs when ready, its timeouts (1 s, 5 s)
\* expire, a connect attempt ends, and the upstream does not refuse every attempt
\* forever (it accepts infinitely often when asked infinitely often).
ConnectorStep ==
    ConnStart \/ RecvTimeout \/ UpstreamClosed \/ RetryElapsed \/ ConnCancelled

ConnectorFairness ==
    /\ WF_vars(ConnectorStep)
    /\ WF_vars(ConnectOK \/ ConnectFail)
    /\ SF_vars(ConnectOK)

RetrySpec == Spec /\ ConnectorFairness

\* Scheduling of main_server_logic and of the ShutdownEventWatcher task: the event
\* loop runs every ready task, and the waits of lines 186 (5 s) and 204 (10 s) end
\* at the latest on their timeout.  Nothing is assumed about the listener, the
\* subscribers, their sessions or the connector task.
CoordinatorStep == CoordWake \/ CoordServerClosed \/ CoordJoined

CoordinatorFairness == WF_vars(WatcherDone) /\ WF_vars(CoordinatorStep)

ShutdownSpec == Spec /\ CoordinatorFairness

\* ---------------------------------------------------------------------
\* properties
\* ---------------------------------------------------------------------

\* how many times client c was sent message m
Count(c, m) == Cardinality({i \in DOMAIN received[c] : received[c][i] = m})

\* C1 as stated: when broadcast_message(M) has returned, exactly the subscribers
\* that were registered and open when it started have received M, each once.
C1_ExactlyActiveReceive ==
    \A m \in MsgIds : bstatus[m] = "returned" =>
        \A c \in Clients : Count(c, m) = IF c \in activeAtStart[m] THEN 1 ELSE 0

C1_Delivered ==
    \A m \in MsgIds, c \in Clients :
        /\ Count(c, m) <= 1
        /\ Count(c, m) = 1 => c \in activeAtStart[m]
        /\ (bstatus[m] = "returned" /\ c \in activeAtStart[m]) =>
               /\ sendTask[m][c] \in {"ok", "failed"}
               /\ sendTask[m][c] = "ok" => Count(c, m) = 1

C1_FrozenAfterReturn ==
    \A m \in MsgIds : bstatus[m] = "returned" =>
        \A c \in Clients : Count(c, m)' = Count(c, m)

\* C1 amended: only subscribers registered and open when the broadcast of M starts
\* receive M, each at most once; when the call returns each of them has had its send
\* attempted, and has received M exactly once unless that send failed; once the call
\* has returned nobody (so no subscriber that connects later) receives M.
C1_OnlyActiveReceive == [](C1_Delivered) /\ [][C1_FrozenAfterReturn]_vars

\* a returned broadcast that a subscriber missed because it closed before its send ran
C1_Witness ==
    \E m \in MsgIds, a, b \in Clients :
        /\ bstatus[m] = "returned"
        /\ sendTask[m][a] = "failed" /\ Count(a, m) = 0
        /\ spc[b] = "waiting" /\ conn[b] = "open" /\ sendTask[m][b] = "none"

\* C2: every subscriber receives the upstream messages in the order of their receipt
\* from upstream (message ids count receipts), and when the broadcast of a message
\* starts, the handling of every earlier message is over with no send task pending.
C2_InOrder ==
    /\ \A c \in Clients : \A i, j \in DOMAIN received[c] :
           i < j => received[c][i] < received[c][j]
    /\ \A m1, m2 \in MsgIds :
           (m1 < m2 /\ bstatus[m2] # "none") =>
               /\ bstatus[m1] \in {"dropped", "returned"}
               /\ \A c \in Clients : sendTask[m1][c] # "pending"

C2_Witness ==
    \A c \in Clients : Len(received[c]) = MaxMsgs /\ spc[c] = "waiting"

\* C3: a subscriber whose session started with shutdown_event set is never in the
\* registry, and its connection was closed by the session with code 1012.
C3_LateRejected ==
    \A c \in lateStart :
        /\ c \notin CONNECTED_CLIENTS
        /\ conn[c] = "closed"
        /\ closeCode[c] = ShutdownCode

C3_Witness ==
    \E c \in lateStart : spc[c] = "done" /\ CONNECTED_CLIENTS # {}

\* C4 as stated: every subscriber registered and open when shutdown_event is set
\* gets a close with code 1012 from its session (seen once the session has ended).
C4_AllGetShutdownClose ==
    \A c \in openAtSet : spc[c] = "done" => closeCode[c] = ShutdownCode

\* C4 amended: every subscriber registered and open when shutdown_event is set
\* eventually gets a close with code 1012 from its own session, unless it closes its
\* own connection before its session has reacted to the signal.
C4_ShutdownCloseUnlessPeerClosed ==
    \A c \in Clients :
        (c \in openAtSet) ~>
            (closeCode[c] = ShutdownCode \/ (conn[c] = "closed" /\ closeCode[c] = 0))

C4_Witness ==
    /\ Cardinality(openAtSet) = NumClients
    /\ \A c \in Clients : spc[c] = "done" /\ closeCode[c] = ShutdownCode
    /\ cpc = "closing_server"

C7_FailureIsolated ==
    \A m \in MsgIds :
        /\ bstatus[m] # "raised"
        /\ (bstatus[m] = "returned" /\ \E a \in Clients : sendTask[m][a] = "failed") =>
               \A b \in activeAtStart[m] :
                   \/ sendTask[m][b] = "failed"
                   \/ sendTask[m][b] = "ok" /\ Count(b, m) = 1

C7_Witness ==
    \E m \in MsgIds, a, b \in Clients :
        /\ bstatus[m] = "returned"
        /\ upc = "recv"
        /\ sendTask[m][a] = "failed"
        /\ sendTask[m][b] = "ok" /\ Count(b, m) = 1

\* C8: while shutdown_event is not set, the retry wait is followed by a new connect
\* attempt, and after failed attempts the connector gets connected (the upstream
\* accepting some attempt) unless shutdown is requested.
C8_RetriesUntilConnected ==
    /\ (upc = "retrywait") ~> (upc = "connecting" \/ shutdown_event)
    /\ (ufails > 0) ~> (upstream = "Connected" \/ shutdown_event)

C8_Witness == upc = "connecting" /\ ufails = MaxFails /\ ~shutdown_event

\* C9: whenever the connector task has ended, shutdown_event is set.
C9_EndsOnlyOnShutdown == (upc \in {"done", "cancelled"}) => shutdown_event

C9_Witness == upc = "done" /\ NumReceived > 0 /\ cpc = "running"

\* C10: no step unsets shutdown_event.
C10_Monotonic == [][shutdown_event => shutdown_event']_vars

C10_Witness == shutdown_event /\ cpc = "exited"

\* a send of message m to client c runs in this step (client.send is called)
SendRuns(m, c) == sendTask[m][c] = "pending" /\ sendTask'[m][c] \in {"ok", "failed"}

\* a send task for message m to client c is created in this step
SendCreated(m, c) == sendTask[m][c] = "none" /\ sendTask'[m][c] # "none"

\* C11 as stated: whenever a send of a broadcast runs, the subscriber's connection
\* is open and the subscriber is in the registry.
C11_SendOnlyToActive ==
    [][\A m \in MsgIds, c \in Clients :
          SendRuns(m, c) => (conn[c] = "open" /\ c \in CONNECTED_CLIENTS)]_vars

\* C11 amended: a send task is created only for a subscriber that is registered and
\* open when broadcast_message takes its snapshot; a send that runs on a subscriber
\* that is still open finds it registered and delivers; a send that runs after the
\* subscriber closed fails and delivers nothing.
C11_SendCreatedOnlyForActive ==
    [][\A m \in MsgIds, c \in Clients :
          /\ SendCreated(m, c) => (conn[c] = "open" /\ c \in CONNECTED_CLIENTS)
          /\ (SendRuns(m, c) /\ conn[c] = "open") =>
                 (c \in CONNECTED_CLIENTS /\ sendTask'[m][c] = "ok")
          /\ (SendRuns(m, c) /\ conn[c] # "open") =>
                 (sendTask'[m][c] = "failed" /\ received'[c] = received[c])]_vars

\* a send ran for a subscriber whose session had already unregistered it, while
\* the send to another subscriber of the same broadcast succeeded
C11_Witness ==
    \E m \in MsgIds, a, b \in Clients :
        /\ sendTask[m][a] = "failed" /\ spc[a] = "done" /\ a \notin CONNECTED_CLIENTS
        /\ sendTask[m][b] = "ok"
        /\ bstatus[m] = "started"

\* clients whose session has registered them and has not ended yet (lines 37-71)
InSession == {c \in Clients : spc[c] \in {"waiting", "closing", "cleanup"}}

\* C12 as stated: a subscriber is in the registry exactly when its connection is
\* open.
C12_RegistryIffActive ==
    \A c \in Clients : c \in CONNECTED_CLIENTS <=> conn[c] = "open"

\* C12 amended: every subscriber with an open connection is in the registry; a
\* subscriber is in the registry exactly while its session, started before the
\* shutdown request, has registered it and has not ended; so a closed subscriber
\* stays in the registry until its session has run its cleanup.
C12_RegistryIsLiveSessions ==
    /\ \A c \in Clients : conn[c] = "open" => c \in CONNECTED_CLIENTS
    /\ CONNECTED_CLIENTS = InSession
    /\ CONNECTED_CLIENTS \cap lateStart = {}

\* one subscriber closed and is still registered, its session not having run yet,
\* while another is open and registered
C12_Witness ==
    \E a, b \in Clients :
        /\ conn[a] = "closed" /\ a \in CONNECTED_CLIENTS /\ spc[a] = "waiting"
        /\ conn[b] = "open" /\ b \in CONNECTED_CLIENTS
        /\ ~shutdown_event

\* clients for which broadcast_message(m) created a send task (lines 84-86)
SentTo(m) == {c \in Clients : sendTask[m][c] # "none"}

C13_TargetsAreSnapshot ==
    \A m \in MsgIds :
        /\ bstatus[m] \in {"started", "returned", "cancelled"} =>
               SentTo(m) = activeAtStart[m]
        /\ bstatus[m] \in {"none", "dropped"} => SentTo(m) = {}
        /\ \A c \in Clients : Count(c, m) = 1 => c \in activeAtStart[m]

C13_FixedAtStart ==
    /\ \A m \in MsgIds, c \in Clients : SendCreated(m, c) => bstatus[m] = "none"
    /\ CONNECTED_CLIENTS' # CONNECTED_CLIENTS =>
           (sendTask' = sendTask /\ bstatus' = bstatus /\ received' = received)

\* C13: the subscribers a broadcast sends to are those registered and open when it
\* started; no send task is added once it has started, so a subscriber registered
\* during the broadcast is not sent the message; a step that adds or removes a
\* subscriber changes no send task, broadcast or delivery, so a removed
\* subscriber's send still runs.
C13_Snapshot == [](C13_TargetsAreSnapshot) /\ [][C13_FixedAtStart]_vars

\* during a broadcast one of its targets was removed with its send still pending
\* and another subscriber was registered and has no send task
C13_Witness ==
    \E m \in MsgIds, a, b \in Clients :
        /\ bstatus[m] = "started"
        /\ a \in activeAtStart[m] /\ a \notin CONNECTED_CLIENTS
        /\ sendTask[m][a] = "pending"
        /\ b \notin activeAtStart[m] /\ b \in CONNECTED_CLIENTS /\ conn[b] = "open"
        /\ sendTask[m][b] = "none"

\* C14: in every state where a session has ended its subscriber is not in the
\* registry, whichever way the session ended; removing a subscriber that is not in
\* the registry changes nothing, and removing one that is takes it out.
C14_RemovedWhenSessionEnds ==
    /\ \A c \in Clients : spc[c] = "done" => c \notin CONNECTED_CLIENTS
    /\ \A S \in SUBSET Clients, c \in Clients :
           /\ c \notin S => Unregister(S, c) = S
           /\ c \notin Unregister(S \cup {c}, c)

\* both sessions registered their subscriber and have ended, one after its
\* subscriber closed first and one after the shutdown request came first
C14_Witness ==
    \E a, b \in Clients :
        /\ spc[a] = "done" /\ a \notin lateStart /\ closeCode[a] = 0
        /\ spc[b] = "done" /\ b \notin lateStart /\ closeCode[b] = ShutdownCode
        /\ CONNECTED_CLIENTS = {}

\* C15 as stated: cancel() is called on the connector task only once the bounded
\* wait for it (line 204) has been reached and has ended, and a broadcast in
\* progress is cancelled only then.
C15_CancelOnlyAfterWait ==
    [][/\ (~ucancel /\ ucancel') => cpc \in {"joining", "stopped"}
       /\ \A m \in MsgIds :
              (bstatus[m] = "started" /\ bstatus'[m] = "cancelled") =>
                  cpc \in {"stopped", "exited"}]_vars

C17_ShutdownCompletes ==
    /\ (cpc = "running" /\ (shutdown_event \/ ConnectorEnded)) ~>
           (cpc \in {"stopped", "exited"})
    /\ [][(cpc # "stopped" /\ cpc' = "stopped") =>
              (cpc \in {"closing_server", "joining"} /\ shutdown_event /\ ~listening)]_vars

\* main is at its end although the connector has not ended and a session still
\* waits for its subscriber to acknowledge the close
C17_Witness ==
    /\ cpc = "stopped"
    /\ ~ConnectorEnded
    /\ \E c \in Clients : spc[c] = "closing"
    /\ \E c \in Clients : spc[c] = "waiting"

\* C18: when a broadcast_message call has returned, each send task it created has
\* finished, with success or with a failure; more generally a send task is pending
\* only while the connector is inside the gather of its broadcast.
C18_FanOutIsJoin ==
    /\ \A m \in MsgIds : bstatus[m] = "returned" =>
           \A c \in SentTo(m) : sendTask[m][c] \in {"ok", "failed"}
    /\ \A m \in MsgIds, c \in Clients :
           sendTask[m][c] = "pending" => (bstatus[m] = "started" /\ upc = "gather")

\* the first broadcast has returned with all its sends finished and the next one
\* is in its gather with a send still pending
C18_Witness ==
    \E m1, m2 \in MsgIds :
        /\ bstatus[m1] = "returned" /\ SentTo(m1) = Clients
        /\ \A c \in Clients : sendTask[m1][c] = "ok"
        /\ bstatus[m2] = "started"
        /\ \E c \in Clients : sendTask[m2][c] = "pending"

\* C19: a step of a broadcast (its start, a send, its return, its cancellation)
\* leaves the registry as it is, and a subscriber leaves the registry only in the
\* step that ends its own session.
C19_BroadcastKeepsRegistry ==
    [][/\ (bstatus' # bstatus \/ sendTask' # sendTask \/ received' # received) =>
              CONNECTED_CLIENTS' = CONNECTED_CLIENTS
       /\ \A c \in CONNECTED_CLIENTS \ CONNECTED_CLIENTS' :
              spc[c] # "done" /\ spc'[c] = "done"]_vars

\* a broadcast returned in which the send to one registered subscriber failed and
\* another registered subscriber was found closed and skipped; both are still in
\* the registry
C19_Witness ==
    \E m \in MsgIds, a, b \in Clients :
        /\ bstatus[m] = "returned"
        /\ sendTask[m][a] = "failed" /\ a \in CONNECTED_CLIENTS
        /\ sendTask[m][b] = "none" /\ b \in CONNECTED_CLIENTS /\ conn[b] = "closed"
        /\ \E n \in MsgIds : sendTask[n][b] = "ok"

\* C20: a connect attempt begins only at the start of the task or from the retry
\* wait, with shutdown_event not set; when an established connection has ended the
\* task goes to the retry wait or ends; and when the retry wait is left with
\* shutdown_event set the task ends without another attempt.
C20_RetryWaitBetweenAttempts ==
    [][/\ (upc # "connecting" /\ upc' = "connecting") =>
              (upc \in {"created", "retrywait"} /\ ~shutdown_event)
       /\ (upc = "aexit" /\ upc' # "aexit") =>
              upc' \in {"retrywait", "done", "cancelled"}
       /\ (upc = "retrywait" /\ upc' # "retrywait" /\ shutdown_event) =>
              upc' \in {"done", "cancelled"}]_vars

\* a new connect attempt after a connection that was established and delivered
\* frames has ended
C20_Witness ==
    /\ upc = "connecting"
    /\ ufails = 0
    /\ NumReceived > 0
    /\ ~shutdown_event

====
